---------------------------- MODULE Spec2Model ----------------------------
(***************************************************************************)
(* user-actions-api: the in-memory store (storage/storage.go) and the      *)
(* query handlers built on it (api/server.go).                             *)
(*                                                                         *)
(* The store keeps users and actions in two maps keyed by id.  They are    *)
(* filled once by NewInMemoryStorage from two record files and are only    *)
(* read afterwards.  GetActions copies the action map into a slice (Go     *)
(* ranges over a map in an unspecified order) and sorts it with            *)
(* sort.Slice by (UserID, CreatedAt).  The handlers compute the           *)
(* next-action distribution and the referral index from that slice.       *)
(*                                                                         *)
(* Probabilities are kept in hundredths (0.5 is 50): the handler rounds    *)
(* to two decimals, so a hundredth is the unit of its results.             *)
(***************************************************************************)
EXTENDS Integers, Sequences, FiniteSets, TLC

VARIABLES
    phase,       \* main's position: "new", "usersLoaded", "ready", "failed"
    userFile,    \* the users record source handed to loadUsers
    actionFile,  \* the actions record source handed to loadActions
    users,       \* InMemoryStorage.users   : map[int]User
    actions,     \* InMemoryStorage.actions : map[int]Action
    req,         \* the request being answered (operation and parameter)
    called,      \* the store methods the request invoked, in order
    listed,      \* what the request's GetActions call returned
    resp,        \* the response written to the caller
    held         \* what the request's store call returned, as its caller holds it

vars ==
    <<phase, userFile, actionFile, users, actions, req, called, listed, resp, held>>

-----------------------------------------------------------------------------
(* Bounds of the model. *)

\* Longest actions file of the store family.
MaxActions == 3
\* Longest actions file of the estimator family.
MaxSteps == 3
\* Longest actions file of the referral family.
MaxEdges == 3
\* Longest users file.
MaxUsers == 2

-----------------------------------------------------------------------------
(* Data model: types/types.go. *)

User(id, name) == [ID |-> id, Name |-> name]

Action(id, type, userId, targetUser, createdAt) ==
    [ID |-> id, Type |-> type, UserID |-> userId,
     TargetUser |-> targetUser, CreatedAt |-> createdAt]

\* The action type whose occurrences form referral edges.
ReferUser == "REFER_USER"

\* A record source: readable and well-formed (ok, with its records), or not.
File(recs) == [ok |-> TRUE, recs |-> recs]
BadFile == [ok |-> FALSE, recs |-> <<>>]

\* An empty Go map.
EmptyMap == <<>>

\* m[k] = v, as Go's map assignment: insert or overwrite.
MapPut(m, k, v) == [x \in (DOMAIN m) \cup {k} |-> IF x = k THEN v ELSE m[x]]

RECURSIVE LoadRecords(_, _)
\* for _, r := range records { m[r.ID] = r } : a later duplicate id overwrites.
LoadRecords(m, recs) ==
    IF recs = <<>> THEN m
    ELSE LoadRecords(MapPut(m, Head(recs).ID, Head(recs)), Tail(recs))

-----------------------------------------------------------------------------
(* InMemoryStorage's read methods. *)

\* GetUser: the user as a one-element sequence, <<>> for nil.
GetUser(id) == IF id \in DOMAIN users THEN <<users[id]>> ELSE <<>>

\* A value a store method returned, as the caller holds it: its kind, the
\* cell a write through it lands in ("copy": memory of the caller's own,
\* "stored": the entry of the store's map under key), and its content.
Returned(kind, cell, key, val) ==
    [kind |-> kind, cell |-> cell, key |-> key, val |-> val]
\* Nothing to write through: no call made, a count, or a nil pointer.
NoValue == Returned("none", "none", 0, <<>>)

\* GetUser returning the address of the map's own entry.
GetUserPointerIntoStore(id) ==
    IF GetUser(id) = <<>> THEN NoValue
    ELSE Returned("user", "stored", id, GetUser(id)[1])

\* The pointer GetUser returns: &user, user being the local variable the
\* map entry was copied into.
GetUserPointer(id) ==
    IF GetUser(id) = <<>> THEN NoValue
    ELSE Returned("user", "copy", id, GetUser(id)[1])

RECURSIVE CountLoop(_, _, _)
\* the counting loop of CountActionsByUserID over the ids still to visit
CountLoop(ids, userID, count) ==
    IF ids = {} THEN count
    ELSE LET id == CHOOSE x \in ids : TRUE
         IN CountLoop(ids \ {id}, userID,
                      IF actions[id].UserID = userID THEN count + 1 ELSE count)

\* CountActionsByUserID without the test on UserID: every action counts.
CountEveryAction(userID) == Cardinality(DOMAIN actions)

CountActionsByUserID(userID) == CountLoop(DOMAIN actions, userID, 0)

\* Less with the tie on UserID left undecided: createdAt is never compared.
LessByUserOnly(a, b) == a.UserID < b.UserID

\* The comparison GetActions hands to sort.Slice.
Less(a, b) ==
    IF a.UserID = b.UserID THEN a.CreatedAt < b.CreatedAt
    ELSE a.UserID < b.UserID

RECURSIVE Perms(_)
\* Every order in which a range over a map with key set S can visit the keys.
Perms(S) ==
    IF S = {} THEN {<<>>}
    ELSE UNION {{<<x>> \o p : p \in Perms(S \ {x})} : x \in S}

RECURSIVE SinkDown(_, _)
\* Inner loop of the insertion sort: for j := i; j > a && less(s[j], s[j-1]); j--
\* swaps s[j] and s[j-1].  s is 1-based here.
SinkDown(s, j) ==
    IF j > 1 /\ Less(s[j], s[j-1])
    THEN SinkDown([s EXCEPT ![j] = s[j-1], ![j-1] = s[j]], j - 1)
    ELSE s

RECURSIVE InsertionSort(_, _)
\* sort.Slice on a slice shorter than 12 elements is an insertion sort.
InsertionSort(s, i) ==
    IF i > Len(s) THEN s ELSE InsertionSort(SinkDown(s, i), i + 1)

\* GetActions for one iteration order of the map: copy, then sort.
GetActionsIn(order) ==
    InsertionSort([i \in 1..Len(order) |-> actions[order[i]]], 2)

\* Every slice a call of GetActions can return.
GetActionsResults == {GetActionsIn(order) : order \in Perms(DOMAIN actions)}

\* The slice GetActions returns: made by the call and filled with copies of
\* the map's values, so a write to an element lands in the slice alone.
GetActionsSlice(acts) == Returned("actions", "copy", 0, acts)

-----------------------------------------------------------------------------
(* handleGetNextActionProbability: api/server.go. *)

\* actionCounts[k]++ on a Go map: a missing key counts from zero.
Increment(m, k) ==
    IF k \in DOMAIN m THEN [m EXCEPT ![k] = @ + 1] ELSE MapPut(m, k, 1)

RECURSIVE CountNextActionsAcrossUsers(_, _, _, _)
\* The tallying loop without the test that both actions are one user's.
CountNextActionsAcrossUsers(acts, actionType, i, st) ==
    IF i >= Len(acts) THEN st
    ELSE CountNextActionsAcrossUsers(acts, actionType, i + 1,
            IF acts[i].Type = actionType
            THEN [counts |-> Increment(st.counts, acts[i+1].Type),
                  total  |-> st.total + 1]
            ELSE st)

RECURSIVE CountNextActions(_, _, _, _)
\* for i := 0; i < len(actions)-1; i++ : st is (actionCounts, totalNextActions).
\* i is 1-based: it runs over 1..Len(acts)-1.
CountNextActions(acts, actionType, i, st) ==
    IF i >= Len(acts) THEN st
    ELSE CountNextActions(acts, actionType, i + 1,
            IF acts[i].Type = actionType /\ acts[i].UserID = acts[i+1].UserID
            THEN [counts |-> Increment(st.counts, acts[i+1].Type),
                  total  |-> st.total + 1]
            ELSE st)

\* math.Round(probability)*100/100: rounded before it is scaled.
RoundedBeforeScaling(count, total) == 100 * ((2 * count + total) \div (2 * total))

\* math.Round(float64(count)/float64(total)*100), the probability in hundredths:
\* the nearest integer, a half rounded away from zero.
RoundedProbability(count, total) == (200 * count + total) \div (2 * total)

\* The result mapping the handler builds from the tallies.
NextActionProbability(acts, actionType) ==
    LET st == CountNextActions(acts, actionType, 1,
                               [counts |-> EmptyMap, total |-> 0])
    IN [a \in DOMAIN st.counts |-> RoundedProbability(st.counts[a], st.total)]

-----------------------------------------------------------------------------
(* handleGetReferralIndex: api/server.go. *)

\* referrals[k] on a Go map of slices: a missing key reads as the nil slice.
Referred(referrals, user) ==
    IF user \in DOMAIN referrals THEN referrals[user] ELSE <<>>

RECURSIVE BuildReferralsAnyTarget(_, _)
\* The edge-collecting loop without the test on TargetUser.
BuildReferralsAnyTarget(acts, referrals) ==
    IF acts = <<>> THEN referrals
    ELSE LET action == Head(acts)
         IN BuildReferralsAnyTarget(Tail(acts),
                IF action.Type = ReferUser
                THEN MapPut(referrals, action.UserID,
                            Append(Referred(referrals, action.UserID),
                                   action.TargetUser))
                ELSE referrals)

RECURSIVE BuildReferrals(_, _)
\* The edge-collecting loop: an action adds the edge UserID -> TargetUser when
\* it is a REFER_USER action with a nonzero target.
BuildReferrals(acts, referrals) ==
    IF acts = <<>> THEN referrals
    ELSE LET action == Head(acts)
         IN BuildReferrals(Tail(acts),
                IF action.Type = ReferUser /\ action.TargetUser # 0
                THEN MapPut(referrals, action.UserID,
                            Append(Referred(referrals, action.UserID),
                                   action.TargetUser))
                ELSE referrals)

RECURSIVE Dfs(_, _, _)
RECURSIVE DfsEach(_, _, _)
\* dfs with the increment ahead of the visited check: a user reached along
\* two branches is counted twice.
DfsCountingArrivals(referrals, user, st) ==
    IF user \in st.visited THEN [st EXCEPT !.index = @ + 1, !.calls = @ + 1]
    ELSE LET entered == [st EXCEPT !.visited = @ \cup {user},
                                   !.calls = @ + 1,
                                   !.expanded = Append(@, user)]
             after == DfsEach(referrals, Referred(referrals, user), entered)
         IN [after EXCEPT !.index = @ + 1]

\* The closure dfs of one root: st is (visited, index), index being the root's
\* entry referralIndex[userId], with a record of the run: calls counts the
\* invocations of dfs, expanded lists the users whose targets were ranged
\* over (the invocations that passed the visited check), in order.
Dfs(referrals, user, st) ==
    IF user \in st.visited THEN [st EXCEPT !.calls = @ + 1]
    ELSE LET entered == [st EXCEPT !.visited = @ \cup {user},
                                   !.calls = @ + 1,
                                   !.expanded = Append(@, user)]
             after == DfsEach(referrals, Referred(referrals, user), entered)
         IN [after EXCEPT !.index = @ + 1]

\* for _, referredUser := range targets { dfs(referredUser) }
DfsEach(referrals, targets, st) ==
    IF targets = <<>> THEN st
    ELSE DfsEach(referrals, Tail(targets), Dfs(referrals, Head(targets), st))

\* The start of a round: visited := make(map[int]bool), nothing run yet.
NewRound == [visited |-> {}, index |-> 0, calls |-> 0, expanded |-> <<>>]

RECURSIVE DfsEachUnmarked(_, _, _)
\* The round with visited made anew ahead of each dfs(referredUser) of the
\* root's own loop: what one direct target marked is forgotten at the next.
DfsEachUnmarked(referrals, targets, st) ==
    IF targets = <<>> THEN st
    ELSE DfsEachUnmarked(referrals, Tail(targets),
            Dfs(referrals, Head(targets), [st EXCEPT !.visited = {}]))
RootRoundVisitedPerTarget(referrals, userId) ==
    DfsEachUnmarked(referrals, referrals[userId], NewRound)

\* The round that runs dfs on the first direct target and leaves the loop.
RootRoundFirstTarget(referrals, userId) ==
    Dfs(referrals, referrals[userId][1], NewRound)

\* One round of the outer loop: a fresh visited set, then dfs on each direct
\* target of the root.  The result's index is what the round added to
\* referralIndex[userId].
RootRound(referrals, userId) ==
    DfsEach(referrals, referrals[userId], NewRound)

\* The outer loop followed by an entry of 0 for every user that was referred
\* and has no entry yet.
ReferralIndexWithTargets(referrals) ==
    LET targets == UNION {{referrals[u][i] : i \in DOMAIN referrals[u]} :
                            u \in DOMAIN referrals}
    IN [userId \in (DOMAIN referrals) \cup targets |->
            IF userId \in DOMAIN referrals
            THEN RootRound(referrals, userId).index
            ELSE 0]

\* The outer loop over the referrers.  referralIndex[userId]++ creates the
\* entry, so a root has an entry once its round has incremented it.
ReferralIndex(referrals) ==
    LET keys == {userId \in DOMAIN referrals :
                    RootRound(referrals, userId).index > 0}
    IN [userId \in keys |-> RootRound(referrals, userId).index]

-----------------------------------------------------------------------------
(* Requests and responses. *)

StatusOK == 200
StatusBadRequest == 400
StatusNotFound == 404

\* A path parameter that should be a number: strconv.Atoi accepts it (num) and
\* yields val, or rejects it.
NumberParam(n) == [num |-> TRUE, val |-> n]
NotANumber == [num |-> FALSE, val |-> 0]
Atoi(p) == [err |-> ~p.num, val |-> IF p.num THEN p.val ELSE 0]

Request(op, id, type) == [op |-> op, id |-> id, type |-> type]
NoRequest == Request("none", NotANumber, "")

\* c.JSON(status, body): kind says which body was written.
Response(status, kind, error, user, count, probs, index) ==
    [status |-> status, kind |-> kind, error |-> error, user |-> user,
     count |-> count, probs |-> probs, index |-> index]
NoResponse == Response(0, "none", "", <<>>, 0, EmptyMap, EmptyMap)
ErrorResponse(status, error) ==
    Response(status, "error", error, <<>>, 0, EmptyMap, EmptyMap)
UserResponse(user) == Response(StatusOK, "user", "", user, 0, EmptyMap, EmptyMap)
CountResponse(count) ==
    Response(StatusOK, "count", "", <<>>, count, EmptyMap, EmptyMap)
ProbabilityResponse(probs) ==
    Response(StatusOK, "probs", "", <<>>, 0, probs, EmptyMap)
IndexResponse(index) ==
    Response(StatusOK, "index", "", <<>>, 0, EmptyMap, index)

-----------------------------------------------------------------------------
(* Inputs. *)

Times == {0, 1}
StoreUserIds == {1, 2}
RefUserIds == {1, 2, 3}
QueryIds == {1, 2}
IdParams == {NumberParam(n) : n \in QueryIds} \cup {NotANumber}
TypeParams == {"", "WELCOME", "CONNECT_CRM", ReferUser}

\* All sequences over S of length at most n.
SeqsUpTo(S, n) == UNION {[1..k -> S] : k \in 0..n}

\* The records f with the ids ids[i].
WithIds(f, ids) == [i \in DOMAIN f |-> [f[i] EXCEPT !.ID = ids[i]]]
\* The records f, the i-th with id i.
Numbered(f) == WithIds(f, [i \in DOMAIN f |-> i])
\* The records f, the i-th with id and time i.
NumberedAndTimed(f) ==
    [i \in DOMAIN f |-> [f[i] EXCEPT !.ID = i, !.CreatedAt = i]]

\* Users files: ids may repeat, with different names.
UserRecs == {User(1, "Alice"), User(1, "Bob"), User(2, "Carol")}
UserFiles == {File(f) : f \in SeqsUpTo(UserRecs, MaxUsers)} \cup {BadFile}
DefaultUserFile == File(<<User(1, "Alice")>>)

\* Store family: actions of users 1 and 2 at times 0 and 1, listed in any
\* order; a record carries its position as id, or repeats the first one's.
StoreRecs == {Action(0, "WELCOME", u, 0, t) : u \in StoreUserIds, t \in Times}
\* Ids for k records: the i-th is i, or 1 again.
IdChoices(k) == {ids \in [1..k -> 1..k] : \A i \in 1..k : ids[i] \in {1, i}}
StoreActionFiles ==
    UNION {{File(WithIds(f, ids)) : ids \in IdChoices(Len(f))} :
            f \in SeqsUpTo(StoreRecs, MaxActions)}
    \cup {BadFile}
\* Three actions, the last repeating the first one's id.
RepeatedIdActions ==
    <<Action(1, "WELCOME", 1, 0, 0), Action(2, "CONNECT_CRM", 2, 0, 0),
      Action(1, "WELCOME", 2, 0, 1)>>

\* Estimator family: two types; user 1 acts at two instants, user 2 at one.
EstimatorRecs ==
    {Action(0, ty, 1, 0, t) : ty \in {"WELCOME", "CONNECT_CRM"}, t \in Times}
    \cup {Action(0, ty, 2, 0, 0) : ty \in {"WELCOME", "CONNECT_CRM"}}
\* The example store of the handler's test, one instant per position.
ExampleActions ==
    <<Action(1, "WELCOME", 1, 0, 1), Action(2, "CONNECT_CRM", 1, 0, 2),
      Action(3, "ADD_CONTACT", 1, 0, 3), Action(4, "EDIT_CONTACT", 2, 0, 4),
      Action(5, "WELCOME", 3, 0, 5), Action(6, "VIEW_CONTACTS", 3, 0, 6)>>
\* Three users, each WELCOME and then another type: probabilities of a third.
ThirdsActions ==
    <<Action(1, "WELCOME", 1, 0, 1), Action(2, "CONNECT_CRM", 1, 0, 2),
      Action(3, "WELCOME", 2, 0, 1), Action(4, "ADD_CONTACT", 2, 0, 2),
      Action(5, "WELCOME", 3, 0, 1), Action(6, ReferUser, 3, 1, 2)>>
EstimatorActionFiles ==
    {File(Numbered(f)) : f \in SeqsUpTo(EstimatorRecs, MaxSteps)}
    \cup {File(ExampleActions), File(ThirdsActions), BadFile}

\* Referral family: referrals among users 1..3, user 1 also referring itself
\* and nobody (target 0); the i-th record has id and time i, so that the
\* file's order is the store's.
ReferralRecs ==
    {Action(0, ReferUser, e[1], e[2], 0) :
        e \in {p \in RefUserIds \X RefUserIds : p[1] # p[2]}}
    \cup {Action(0, ReferUser, 1, 1, 0), Action(0, ReferUser, 1, 0, 0)}
\* A diamond: 1 refers 2 and 3, and both refer 4.
DiamondActions ==
    <<Action(1, ReferUser, 1, 2, 0), Action(2, ReferUser, 1, 3, 0),
      Action(3, ReferUser, 2, 4, 0), Action(4, ReferUser, 3, 4, 0)>>
\* The referrals of the handler's test: 1->2, 2->3, 3->4, 1->5.
ChainActions ==
    <<Action(1, ReferUser, 1, 2, 0), Action(2, ReferUser, 2, 3, 0),
      Action(3, ReferUser, 3, 4, 0), Action(4, ReferUser, 1, 5, 0)>>
\* The store without referrals of the handler's test.
NoReferralActions ==
    <<Action(1, "WELCOME", 1, 2, 0), Action(2, "ADD_CONTACT", 2, 3, 0)>>
ReferralActionFiles ==
    {File(NumberedAndTimed(f)) : f \in SeqsUpTo(ReferralRecs, MaxEdges)}
    \cup {File(DiamondActions), File(ChainActions), File(NoReferralActions),
          BadFile}

-----------------------------------------------------------------------------
(* The state machine. *)

\* Before NewInMemoryStorage: both maps made and empty, nothing served.
InitWith(userFiles, actionFiles) ==
    /\ phase = "new"
    /\ userFile \in userFiles
    /\ actionFile \in actionFiles
    /\ users = EmptyMap
    /\ actions = EmptyMap
    /\ req = NoRequest
    /\ called = <<>>
    /\ listed = <<>>
    /\ resp = NoResponse
    /\ held = NoValue

Init ==
    \/ InitWith(UserFiles, {File(<<>>), File(RepeatedIdActions), BadFile})
    \/ InitWith({DefaultUserFile}, StoreActionFiles)

InitEstimator == InitWith({DefaultUserFile, BadFile}, EstimatorActionFiles)

InitReferral == InitWith({DefaultUserFile, BadFile}, ReferralActionFiles)

\* loadUsers, and NewInMemoryStorage's return on its error.
loadUsers ==
    /\ phase = "new"
    /\ IF userFile.ok
       THEN /\ users' = LoadRecords(users, userFile.recs)
            /\ phase' = "usersLoaded"
       ELSE /\ users' = users
            /\ phase' = "failed"
    /\ UNCHANGED <<userFile, actionFile, actions, req, called, listed, resp, held>>

\* NewInMemoryStorage returning the store whether or not loadActions failed.
loadActionsKeepingStore ==
    /\ phase = "usersLoaded"
    /\ actions' = IF actionFile.ok THEN LoadRecords(actions, actionFile.recs)
                  ELSE actions
    /\ phase' = "ready"
    /\ UNCHANGED <<userFile, actionFile, users, req, called, listed, resp, held>>

\* loadActions, and NewInMemoryStorage's return: the store on success (main
\* then starts the server), an error otherwise (main exits).
loadActions ==
    /\ phase = "usersLoaded"
    /\ IF actionFile.ok
       THEN /\ actions' = LoadRecords(actions, actionFile.recs)
            /\ phase' = "ready"
       ELSE /\ actions' = actions
            /\ phase' = "failed"
    /\ UNCHANGED <<userFile, actionFile, users, req, called, listed, resp, held>>

handleGetUserByID(p) ==
    /\ phase = "ready"
    /\ req' = Request("GetUserByID", p, "")
    /\ listed' = <<>>
    /\ IF Atoi(p).err
       THEN /\ called' = <<>>
            /\ held' = NoValue
            /\ resp' = ErrorResponse(StatusBadRequest, "Invalid user ID")
       ELSE /\ called' = <<"GetUser">>
            /\ held' = GetUserPointer(Atoi(p).val)
            /\ resp' = IF held'.kind = "none"
                       THEN ErrorResponse(StatusNotFound, "User not found")
                       ELSE UserResponse(<<held'.val>>)
    /\ UNCHANGED <<phase, userFile, actionFile, users, actions>>

handleGetActionCountByUserID(p) ==
    /\ phase = "ready"
    /\ req' = Request("GetActionCountByUserID", p, "")
    /\ listed' = <<>>
    /\ held' = NoValue
    /\ IF Atoi(p).err
       THEN /\ called' = <<>>
            /\ resp' = ErrorResponse(StatusBadRequest, "Invalid user ID")
       ELSE /\ called' = <<"CountActionsByUserID">>
            /\ resp' = CountResponse(CountActionsByUserID(Atoi(p).val))
    /\ UNCHANGED <<phase, userFile, actionFile, users, actions>>

\* The handler with the store read ahead of the test of the parameter.
handleReadBeforeValidation(actionType) ==
    /\ phase = "ready"
    /\ req' = Request("GetNextActionProbability", NotANumber, actionType)
    /\ called' = <<"GetActions">>
    /\ \E acts \in GetActionsResults :
        /\ listed' = acts
        /\ held' = GetActionsSlice(acts)
        /\ resp' =
            IF actionType = ""
            THEN ErrorResponse(StatusBadRequest, "Action type is required")
            ELSE ProbabilityResponse(NextActionProbability(acts, actionType))
    /\ UNCHANGED <<phase, userFile, actionFile, users, actions>>

handleGetNextActionProbability(actionType) ==
    /\ phase = "ready"
    /\ req' = Request("GetNextActionProbability", NotANumber, actionType)
    /\ IF actionType = ""
       THEN /\ called' = <<>>
            /\ listed' = <<>>
            /\ held' = NoValue
            /\ resp' = ErrorResponse(StatusBadRequest, "Action type is required")
       ELSE \E acts \in GetActionsResults :
            /\ called' = <<"GetActions">>
            /\ listed' = acts
            /\ held' = GetActionsSlice(acts)
            /\ resp' = ProbabilityResponse(NextActionProbability(acts, actionType))
    /\ UNCHANGED <<phase, userFile, actionFile, users, actions>>

handleGetReferralIndex ==
    /\ phase = "ready"
    /\ req' = Request("GetReferralIndex", NotANumber, "")
    /\ called' = <<"GetActions">>
    /\ \E acts \in GetActionsResults :
        /\ listed' = acts
        /\ held' = GetActionsSlice(acts)
        /\ resp' =
            IF Len(acts) = 0
            THEN ErrorResponse(StatusNotFound, "No actions found")
            ELSE IF DOMAIN BuildReferrals(acts, EmptyMap) = {}
            THEN ErrorResponse(StatusNotFound, "No referrals found")
            ELSE IndexResponse(ReferralIndex(BuildReferrals(acts, EmptyMap)))
    /\ UNCHANGED <<phase, userFile, actionFile, users, actions>>

Next ==
    \/ loadUsers
    \/ loadActions
    \/ \E p \in IdParams : handleGetUserByID(p)
    \/ \E p \in IdParams : handleGetActionCountByUserID(p)
    \/ \E t \in TypeParams : handleGetNextActionProbability(t)
    \/ handleGetReferralIndex

\* A caller of the Storage interface writing through what it was returned:
\* GetUser hands out a *User and GetActions a []Action, both writable.  It
\* sets the user's name, or the type of the slice's first action.  The write
\* lands in the cell the value lives in.
callerWrites ==
    /\ phase = "ready"
    /\ held.kind \in {"user", "actions"}
    /\ held.val # <<>>
    /\ LET written == IF held.kind = "user"
                      THEN [held.val EXCEPT !.Name = "overwritten"]
                      ELSE [held.val EXCEPT ![1].Type = "overwritten"]
       IN /\ held' = [held EXCEPT !.val = written]
          /\ held' # held
          /\ users' = IF held.cell = "stored" /\ held.kind = "user"
                      THEN [users EXCEPT ![held.key] = written]
                      ELSE users
          /\ actions' = IF held.cell = "stored" /\ held.kind = "actions"
                        THEN [actions EXCEPT ![written[1].ID] = written[1]]
                        ELSE actions
    /\ UNCHANGED <<phase, userFile, actionFile, req, called, listed, resp>>

\* The handlers, and callers of the store that write to what they get.
NextCaller ==
    \/ Next
    \/ callerWrites

Spec == Init /\ [][Next]_vars

SpecCaller == Init /\ [][NextCaller]_vars

SpecEstimator == InitEstimator /\ [][Next]_vars

SpecReferral == InitReferral /\ [][Next]_vars

-----------------------------------------------------------------------------
(* What the properties below speak of. *)

\* The stored actions, as a set.
StoredActions == {actions[id] : id \in DOMAIN actions}

\* The referral relation of the store: an edge per REFER_USER action with a
\* nonzero target.
ReferralEdges ==
    {<<a.UserID, a.TargetUser>> :
        a \in {x \in StoredActions : x.Type = ReferUser /\ x.TargetUser # 0}}

Referrers == {e[1] : e \in ReferralEdges}

\* The users one referral edge away from a user of S.
Successors(S) == {e[2] : e \in {x \in ReferralEdges : x[1] \in S}}

RECURSIVE Closure(_)
\* S with everything reachable from it.
Closure(S) == IF Successors(S) \subseteq S THEN S ELSE Closure(S \cup Successors(S))

\* The users reachable from r along one or more referral edges (r itself
\* among them exactly when r lies on a cycle).
ReachableFrom(r) == Closure(Successors({r}))

\* The request just answered is a referral index query.
IndexQueried == req.op = "GetReferralIndex"

-----------------------------------------------------------------------------
(* Properties of the store. *)

\* C1: every slice GetActions returns is ordered by (userId, createdAt): each
\* adjacent pair (a, b) has a.userId < b.userId, or the same userId and
\* a.createdAt <= b.createdAt, whatever the order of the actions file.
C1_ListedInOrder ==
    called = <<"GetActions">> =>
        \A i \in 1..(Len(listed) - 1) :
            \/ listed[i].UserID < listed[i+1].UserID
            \/ /\ listed[i].UserID = listed[i+1].UserID
               /\ listed[i].CreatedAt <= listed[i+1].CreatedAt

\* C1's case: a file of three actions that lists a later action of user 2
\* first, returned with user 1 first.
C1_Witness ==
    /\ called = <<"GetActions">>
    /\ Len(listed) = 3
    /\ actionFile.recs[1].UserID = 2
    /\ actionFile.recs[1].CreatedAt = 1
    /\ listed[1].UserID = 1
    /\ listed[2].UserID = 2
    /\ listed[2].CreatedAt = 0

\* The request just answered is a count for, or a lookup of, user id n.
CountQueried(n) ==
    req.op = "GetActionCountByUserID" /\ req.id = NumberParam(n)
UserQueried(n) == req.op = "GetUserByID" /\ req.id = NumberParam(n)

\* The number of stored actions of user n.
ActionsOf(n) == Cardinality({id \in DOMAIN actions : actions[id].UserID = n})

\* C2 as stated: the count is the number of stored actions of the user, it
\* is 0 for every user id without a stored user, and the lookup of such an
\* id answers not found.
C2_UnknownUserCountsZero ==
    \A n \in QueryIds :
        /\ CountQueried(n) =>
            /\ resp = CountResponse(ActionsOf(n))
            /\ n \notin DOMAIN users => resp.count = 0
        /\ (UserQueried(n) /\ n \notin DOMAIN users) =>
            resp = ErrorResponse(StatusNotFound, "User not found")

\* C2, amended: the count is the number of stored actions of the user and is
\* answered as a success; it is 0 for every user id that no stored action
\* carries, whether the user is stored or not; the lookup of an id without a
\* stored user answers not found and returns no user.
C2_CountIsActionsOfUser ==
    \A n \in QueryIds :
        /\ CountQueried(n) =>
            /\ resp = CountResponse(ActionsOf(n))
            /\ resp.status = StatusOK
            /\ (\A a \in StoredActions : a.UserID # n) => resp.count = 0
        /\ (UserQueried(n) /\ n \notin DOMAIN users) =>
            /\ resp = ErrorResponse(StatusNotFound, "User not found")
            /\ GetUser(n) = <<>>

\* C2's case: the count of a user id that is not stored and has no action,
\* in a store that holds actions of another user.
C2_Witness ==
    /\ CountQueried(2)
    /\ 2 \notin DOMAIN users
    /\ Cardinality(DOMAIN actions) = 2
    /\ resp.count = 0

-----------------------------------------------------------------------------
(* Properties of the referral index. *)

\* C3: for every user r that made a referral, referralIndex[r] is the number
\* of distinct users reachable from r along referral edges, each counted
\* once; the diamond 1->2, 1->3, 2->4, 3->4 gives referralIndex[1] = 3 and
\* the chain 1->2, 2->3, 3->4, 1->5 gives {1: 4, 2: 2, 3: 1}.
C3_IndexCountsReachable ==
    (IndexQueried /\ resp.kind = "index") =>
        /\ \A r \in Referrers :
            /\ r \in DOMAIN resp.index
            /\ resp.index[r] = Cardinality(ReachableFrom(r))
        /\ actionFile = File(DiamondActions) => resp.index[1] = 3
        /\ actionFile = File(ChainActions) =>
            resp.index = (1 :> 4 @@ 2 :> 2 @@ 3 :> 1)

\* C3's case: the index of the diamond, whose user 4 is reached along two
\* branches of user 1.
C3_Witness ==
    /\ IndexQueried
    /\ actionFile = File(DiamondActions)
    /\ resp.kind = "index"
    /\ resp.index[1] = 3

\* C4: the root is not counted in its own index when the referrals form a
\* cycle through it: with 1 -> 2 and 2 -> 1 and no other referral,
\* referralIndex[1] = 1 and referralIndex[2] = 1.
C4_RootNotCountedOnCycle ==
    (IndexQueried /\ ReferralEdges = {<<1, 2>>, <<2, 1>>}) =>
        /\ resp.kind = "index"
        /\ resp.index[1] = 1
        /\ resp.index[2] = 1

\* C5: the referral index query answers "No actions found" exactly when the
\* store holds no action, "No referrals found" exactly when it holds an
\* action but no REFER_USER action with a nonzero target, and a mapping in
\* every other case.
C5_IndexSignals ==
    IndexQueried =>
        /\ resp = ErrorResponse(StatusNotFound, "No actions found")
            <=> StoredActions = {}
        /\ resp = ErrorResponse(StatusNotFound, "No referrals found")
            <=> (StoredActions # {} /\ ReferralEdges = {})
        /\ resp.kind = "index" <=> ReferralEdges # {}
        /\ resp.kind \in {"error", "index"}

\* C5's case: a store with a REFER_USER action without a target and no other
\* referral answers "No referrals found".
C5_Witness ==
    /\ IndexQueried
    /\ \E a \in StoredActions : a.Type = ReferUser /\ a.TargetUser = 0
    /\ resp = ErrorResponse(StatusNotFound, "No referrals found")

\* C9: the keys of the referral index are exactly the users that made a
\* referral: a user that is only a target of referrals has no entry.
C9_KeysAreReferrers ==
    (IndexQueried /\ resp.kind = "index") =>
        /\ DOMAIN resp.index = Referrers
        /\ \A e \in ReferralEdges :
            e[2] \notin Referrers => e[2] \notin DOMAIN resp.index

\* C9's case: the chain of the handler's test, whose users 4 and 5 are only
\* targets.
C9_Witness ==
    /\ IndexQueried
    /\ actionFile = File(ChainActions)
    /\ resp.kind = "index"
    /\ DOMAIN resp.index = {1, 2, 3}

-----------------------------------------------------------------------------
(* Properties of the next-action distribution. *)

\* The request just answered is a next-action query, for a type that is not
\* empty.
ProbabilityQueried == req.op = "GetNextActionProbability"
TypeQueried == ProbabilityQueried /\ req.type # ""

\* The positions i of the returned slice whose action is of type T and is
\* followed by an action of the same user, and those followed by type X.
QualifyingPairs(T) ==
    {i \in 1..(Len(listed) - 1) :
        listed[i].UserID = listed[i+1].UserID /\ listed[i].Type = T}
PairsInto(T, X) == {i \in QualifyingPairs(T) : listed[i+1].Type = X}

\* c/t to the nearest hundredth, the half upwards.
NearestHundredth(c, t) ==
    CHOOSE h \in 0..100 : 2 * h * t <= 200 * c + t /\ 200 * c + t < 2 * (h + 1) * t

RECURSIVE SumOf(_, _)
\* The sum of f over the keys S.
SumOf(f, S) ==
    IF S = {} THEN 0
    ELSE LET k == CHOOSE x \in S : TRUE IN f[k] + SumOf(f, S \ {k})

\* C6: for a queried type T, the distribution maps each type X that follows T
\* in some qualifying pair to (pairs with actions[i].type = T, the same user
\* and actions[i+1].type = X) / (pairs with actions[i].type = T and the same
\* user), to two decimals; pairs of two users contribute nothing.  On the
\* example store WELCOME gives {CONNECT_CRM: 0.5, VIEW_CONTACTS: 0.5},
\* CONNECT_CRM gives {ADD_CONTACT: 1.0} and a type without action gives {}.
C6_DistributionOfSameUserPairs ==
    TypeQueried =>
        /\ resp.kind = "probs"
        /\ DOMAIN resp.probs =
            {X \in {a.Type : a \in StoredActions} : PairsInto(req.type, X) # {}}
        /\ \A X \in DOMAIN resp.probs :
            resp.probs[X] =
                NearestHundredth(Cardinality(PairsInto(req.type, X)),
                                 Cardinality(QualifyingPairs(req.type)))
        /\ actionFile = File(ExampleActions) =>
            /\ req.type = "WELCOME" =>
                resp.probs = ("CONNECT_CRM" :> 50 @@ "VIEW_CONTACTS" :> 50)
            /\ req.type = "CONNECT_CRM" => resp.probs = ("ADD_CONTACT" :> 100)
            /\ req.type = ReferUser => resp.probs = EmptyMap

\* C6's case: the queried type ends one user's timeline, right before another
\* user's first action, and also occurs inside a timeline.
C6_Witness ==
    /\ TypeQueried
    /\ \E i \in 1..(Len(listed) - 1) :
        listed[i].Type = req.type /\ listed[i].UserID # listed[i+1].UserID
    /\ Cardinality(QualifyingPairs(req.type)) = 1
    /\ Cardinality(DOMAIN resp.probs) = 1

C8_EmptyTypeRejectedUnread ==
    (ProbabilityQueried /\ req.type = "") =>
        /\ resp = ErrorResponse(StatusBadRequest, "Action type is required")
        /\ called = <<>>
        /\ listed = <<>>

\* C8's case: the empty type asked of a store that holds actions.
C8_Witness ==
    /\ ProbabilityQueried
    /\ req.type = ""
    /\ Cardinality(DOMAIN actions) = 3
    /\ resp.status = StatusBadRequest

\* C10: for a loaded store any two calls of GetActions return the same
\* slice, and two next-action queries for the same type the same
\* distribution.
C10_RepeatedCallsAgree ==
    [][(called = <<"GetActions">> /\ called' = <<"GetActions">>) =>
            /\ listed' = listed
            /\ req' = req => resp' = resp]_vars

-----------------------------------------------------------------------------
(* The store after initialization. *)

\* C11: once the store is initialized its user and action collections never
\* change, whatever GetUser, CountActionsByUserID and GetActions calls and
\* next-action and referral-index queries are made, and whatever a caller
\* writes to a value that GetUser or GetActions returned: such a value is a
\* copy of the caller's own and never a cell of the store, so later calls
\* return what they returned before.
C11_StoreFrozenAfterInit ==
    [][phase = "ready" =>
            /\ users' = users
            /\ actions' = actions
            /\ held'.cell # "stored"
            /\ \A n \in QueryIds : GetUser(n)' = GetUser(n)]_vars

\* C11's case: the caller has overwritten the name of the user it got from
\* GetUser, and the store still holds the name that was loaded.
C11_Witness ==
    /\ held.kind = "user"
    /\ held.val.Name = "overwritten"
    /\ users[held.key] = userFile.recs[Len(userFile.recs)]
    /\ users[held.key].Name # "overwritten"

\* Some request has been answered, or some store method called for one.
Served ==
    req # NoRequest \/ resp # NoResponse \/ called # <<>> \/ held # NoValue

\* C12: no query sees a partly initialized store.  A query is served only
\* when both loads have succeeded, and then the maps hold all the records of
\* both files; before that, between the two loads included, and after a
\* failed load of either file, no query has been served, and after a failure
\* none is served later.
C12_NoPartialStoreServed ==
    /\ Served => phase = "ready"
    /\ phase = "ready" =>
        /\ userFile.ok /\ actionFile.ok
        /\ users = LoadRecords(EmptyMap, userFile.recs)
        /\ actions = LoadRecords(EmptyMap, actionFile.recs)
    /\ phase = "failed" => ~ENABLED Next

\* C12's case: the users were loaded, the load of the actions failed, and
\* nothing was served from the store that holds the users alone.
C12_Witness ==
    /\ phase = "failed"
    /\ userFile.ok
    /\ DOMAIN users # {}
    /\ ~actionFile.ok
    /\ ~Served

-----------------------------------------------------------------------------
(* The traversal of the referral index. *)

\* The edge lists the handler built from the slice it listed.
ListedReferrals == BuildReferrals(listed, EmptyMap)

\* A referral index has been answered as a success.
IndexAnswered == IndexQueried /\ resp.kind = "index"

NoRepeats(s) == \A i, j \in DOMAIN s : i # j => s[i] # s[j]

\* The number of edges of all lists together.
EdgeCount(referrals) ==
    SumOf([u \in DOMAIN referrals |-> Len(referrals[u])], DOMAIN referrals)

\* C13: the computation of the referral index ends for every finite referral
\* relation, cycles and self-referrals included: in the round of each root
\* no user is expanded twice, so dfs is invoked at most once per edge of the
\* root and once per edge of each user of the relation, and the root's entry
\* is the number of users expanded.
C13_DfsExpandsOncePerRoot ==
    IndexAnswered =>
        \A root \in DOMAIN ListedReferrals :
            LET run == RootRound(ListedReferrals, root)
            IN /\ NoRepeats(run.expanded)
               /\ run.calls <= Len(ListedReferrals[root]) + EdgeCount(ListedReferrals)
               /\ root \in DOMAIN resp.index
               /\ resp.index[root] = Len(run.expanded)

\* C13's case: an index answered for a relation with a self-referral and a
\* cycle through two users.
C13_Witness ==
    /\ IndexAnswered
    /\ <<1, 1>> \in ReferralEdges
    /\ \E u \in Referrers \ {1} :
        <<1, u>> \in ReferralEdges /\ <<u, 1>> \in ReferralEdges

\* The orders a sequence can be put in.
Reorderings(s) == {[i \in DOMAIN s |-> s[p[i]]] : p \in Perms(DOMAIN s)}

\* The reorderings of the listed actions that move actions of user u only.
ReorderingsWithin(u) ==
    {s \in Reorderings(listed) :
        \A i \in DOMAIN listed : listed[i].UserID # u => s[i] = listed[i]}

\* C14: the referral index does not depend on the order of the targets in
\* one referrer's edge list: every permutation of the list of any one
\* referrer, and every reordering of the actions of any one user, yields the
\* mapping that was answered.
C14_SiblingOrderIrrelevant ==
    IndexAnswered =>
        \A u \in DOMAIN ListedReferrals :
            /\ \A targets \in Reorderings(ListedReferrals[u]) :
                ReferralIndex([ListedReferrals EXCEPT ![u] = targets]) = resp.index
            /\ \A acts \in ReorderingsWithin(u) :
                ReferralIndex(BuildReferrals(acts, EmptyMap)) = resp.index

\* C14's case: a referrer with two different targets of which the first
\* listed refers the second, so that the order of the two decides which of
\* them the traversal reaches the other from.
C14_Witness ==
    /\ IndexAnswered
    /\ \E u \in DOMAIN ListedReferrals :
        /\ Len(ListedReferrals[u]) = 2
        /\ ListedReferrals[u][1] # ListedReferrals[u][2]
        /\ <<ListedReferrals[u][1], ListedReferrals[u][2]>> \in ReferralEdges

\* The sequence s with x put in after its first n elements.
InsertAfter(s, n, x) == SubSeq(s, 1, n) \o <<x>> \o SubSeq(s, n + 1, Len(s))

\* The listed actions that form a referral edge.
ListedEdges ==
    {i \in DOMAIN listed :
        listed[i].Type = ReferUser /\ listed[i].TargetUser # 0}

\* The listings of the store with one more action, a repetition of the
\* referral listed at i under a new id, wherever it comes to stand.
WithRepeated(i) ==
    {InsertAfter(listed, n, [listed[i] EXCEPT !.ID = Len(listed) + 1]) :
        n \in 0..Len(listed)}

\* C15: a further REFER_USER action with the referrer and the nonzero target
\* of an existing one makes the referrer's edge list one longer, leaves the
\* other lists as they are, and leaves the referral index mapping as it was
\* answered.
C15_RepeatedReferralIrrelevant ==
    IndexAnswered =>
        \A i \in ListedEdges : \A acts \in WithRepeated(i) :
            LET more == BuildReferrals(acts, EmptyMap)
                u == listed[i].UserID
            IN /\ DOMAIN more = DOMAIN ListedReferrals
               /\ Len(more[u]) = Len(ListedReferrals[u]) + 1
               /\ \A v \in DOMAIN more \ {u} : more[v] = ListedReferrals[v]
               /\ ReferralIndex(more) = resp.index

\* C15's case: a store in which user 1 referred the same user twice, and
\* the index counts that user once.
C15_Witness ==
    /\ IndexAnswered
    /\ DOMAIN ListedReferrals = {1}
    /\ Len(ListedReferrals[1]) = 2
    /\ ListedReferrals[1][1] = ListedReferrals[1][2]
    /\ ListedReferrals[1][1] # 1
    /\ resp.index[1] = 1

\* The user ids that occur in the referral relation, as referrer or target.
RelationUsers == Referrers \cup {e[2] : e \in ReferralEdges}

\* C16: in a referral index answered as a success every value is at least 1
\* and at most the number of user ids that occur in the referral relation
\* as a referrer or a target; no key carries 0.
C16_IndexValuesInRange ==
    IndexAnswered =>
        /\ resp.status = StatusOK
        /\ \A u \in DOMAIN resp.index :
            /\ resp.index[u] >= 1
            /\ resp.index[u] <= Cardinality(RelationUsers)

\* C16's case: a relation of three users in which one referrer's value is
\* the number of users of the relation and another's is 1.
C16_Witness ==
    /\ IndexAnswered
    /\ Cardinality(RelationUsers) = 3
    /\ \E u, v \in DOMAIN resp.index :
        resp.index[u] = 3 /\ resp.index[v] = 1

=============================================================================
